---- MODULE Spec2Model ----
(***************************************************************************)
(* Model of the D1 settings example (db.service.ts, app.d1example.tsx) and *)
(* of the web-components gallery (app.web-components.tsx).                 *)
(*                                                                         *)
(* Server side: one worker isolate holds the module-level singleton        *)
(* dbService.  Requests (loader / action) are async functions; a request   *)
(* runs synchronously up to its next await, so one model step is "the      *)
(* awaited driver call settles and the continuation runs to the next       *)
(* await".  The driver call of the next await is issued (handle read from  *)
(* this.db, parameters evaluated) inside that same synchronous stretch.    *)
(***************************************************************************)
EXTENDS Integers, Sequences, FiniteSets

\* ----- bounds ------------------------------------------------------------
NumReq == 2        \* request slots that can be in flight concurrently
NumDb == 2         \* distinct D1 bindings a request context can carry
MaxClock == 2      \* readings of Date.now() (one per action; each later than the last)
MaxLen == 2        \* longest text typed into the name field
MaxNames == 1      \* names submitted through the modal
MaxTimers == 1     \* toast timeouts pending at once
MaxTime == 1       \* largest reading of the view's clock
NumViews == 1      \* browser tabs that show the settings page
MaxToggles == 2    \* writes one settings page submits

Reqs == 1..NumReq
Handles == 1..NumDb
NoDb == 0          \* this.db === undefined / context without env.DB
Views == 1..NumViews

VARIABLES
    thisDb,        \* DatabaseService.db of the singleton (db.service.ts:9,133)
    db,            \* per binding: the D1 database (example_table)
    req,           \* per slot: the in-flight loader/action invocation
    resp,          \* the response a handler returns in this step (NoBody: none)
    audit,         \* what the request that returned resp did (observation)
    wr,            \* per database: the upsert the database executed last
    now,           \* Date.now()
    call,          \* a direct caller's service call that is being awaited
    out            \* how the direct caller's last service call ended

\* The gallery view (app.web-components.tsx): React state, the DOM state of
\* the uncontrolled widgets, pending timers.
VARIABLES
    showBanner,            \* useState(false), line 4
    bannerBox,             \* s-checkbox[data-type="banner"].checked
    toastChecked,          \* useState(false), line 5
    toastBox,              \* s-checkbox[data-type="toast"].checked
    timers,                \* pending 4000 ms timeouts of the toast handler
    submittedNames,        \* useState([]), line 6
    nameInputValue,        \* useState(''), line 7 (a sequence of characters)
    componentStatusData,   \* useState([...seed rows]), lines 10-14
    sortConfig,            \* useState({key: null, direction: 'asc'}), line 15
    modalOpen,             \* ui-modal#simple-form-modal is shown
    shopifyToast,          \* message of the last window.shopify.toast.show
    clicks,                \* consecutive handleSort calls on the current key
    gnow                   \* the view's clock (new Date())

\* The settings page (Index of app.d1example.tsx) in the browser, and the
\* requests between it and the worker.
VARIABLES
    index,         \* per page: loader data, React state, the fetcher
    net,           \* requests a page has sent that the worker has not started yet
    owner          \* per slot: the page whose request runs in it (0: another client)

svars == <<thisDb, db, req, resp, audit, wr, now>>
dvars == <<call, out>>
gvars == <<showBanner, bannerBox, toastChecked, toastBox, timers, submittedNames,
           nameInputValue, componentStatusData, sortConfig, modalOpen, shopifyToast,
           clicks, gnow>>
vvars == <<index, net, owner>>
vars == <<svars, dvars, gvars, vvars>>

\* ----- JavaScript values ------------------------------------------------
JBool(b) == [t |-> "boolean", v |-> b]
JNull == [t |-> "null", v |-> FALSE]
JUndef == [t |-> "undefined", v |-> FALSE]

\* ----- the database (SQLite semantics of the four statements) -----------
TestKey == "test_checkbox"
NoTable == [exists |-> FALSE, rows |-> <<>>]
Row(k, v, t) == [key |-> k, value |-> v, updated_at |-> t]

RowsWithKey(rows, k) == SelectSeq(rows, LAMBDA x : x.key = k)

\* INSERT without OR REPLACE semantics (a second row for the key).
InsertPlain(rows, k, v, t) == Append(rows, Row(k, v, t))

\* INSERT OR IGNORE semantics (the row already stored for the key stays).
InsertOrIgnore(rows, k, v, t) ==
    IF RowsWithKey(rows, k) # <<>> THEN rows ELSE Append(rows, Row(k, v, t))

\* INSERT OR REPLACE INTO example_table (key, value, updated_at) VALUES (?, ?, ?)
\* on a table whose key is the PRIMARY KEY: the conflicting row is deleted,
\* the new row is inserted.
InsertOrReplace(rows, k, v, t) ==
    Append(SelectSeq(rows, LAMBDA x : x.key # k), Row(k, v, t))

NoOp == [api |-> "none", h |-> NoDb, query |-> "none", params |-> <<>>]

DriverError == "D1_ERROR"
NoSuchTable == "no such table: example_table"

\* What the driver does with a call on table state tb.  fail = the driver
\* fails for a reason of its own (connectivity, ...).
DriverRun(op, tb, fail) ==
    LET Failed(msg) == [ok |-> FALSE, error |-> msg, tb |-> tb,
                        first |-> JNull, value |-> "", rows |-> <<>>]
        Done(tbn, f, v, rs) == [ok |-> TRUE, error |-> "", tb |-> tbn,
                                first |-> f, value |-> v, rows |-> rs]
    IN  IF fail THEN Failed(DriverError)
        ELSE IF op.query = "CREATE"
             THEN Done([tb EXCEPT !.exists = TRUE], JNull, "", <<>>)
        ELSE IF ~tb.exists THEN Failed(NoSuchTable)
        ELSE IF op.query = "UPSERT"
             THEN Done([tb EXCEPT !.rows = InsertOrReplace(tb.rows, op.params[1],
                                                           op.params[2], op.params[3])],
                       JNull, "", <<>>)
        ELSE IF op.query = "SELECT_FIRST"
             THEN LET m == RowsWithKey(tb.rows, op.params[1])
                  IN  IF m = <<>> THEN Done(tb, JNull, "", <<>>)
                      ELSE Done(tb, JBool(TRUE), m[1].value, <<>>)
        ELSE Done(tb, JNull, "", tb.rows)

\* ----- DatabaseService --------------------------------------------------
NotAvailable == "Database not available"

\* initFromContext with a stale-handle check (truthy whenever this.db is set).
InitFromContextStale(cur, ctx) ==
    IF ctx # NoDb THEN [db |-> ctx, ret |-> TRUE]
    ELSE [db |-> cur, ret |-> cur # NoDb]

\* initFromContext(context): ctx is context?.cloudflare?.env?.DB (NoDb when absent).
InitFromContext(cur, ctx) ==
    IF ctx # NoDb THEN [db |-> ctx, ret |-> TRUE]
    ELSE [db |-> cur, ret |-> FALSE]

SvcThrow(msg) == [threw |-> TRUE, error |-> msg, op |-> NoOp]
SvcCall(api, h, q, params) ==
    [threw |-> FALSE, error |-> "", op |-> [api |-> api, h |-> h, query |-> q, params |-> params]]

\* The synchronous head of executeQuery / getAllRows / getFirstRow: the
\* handle check and the driver call that is then awaited.
ExecuteQuery(cur, q, params) ==
    IF cur = NoDb THEN SvcThrow(NotAvailable)
    ELSE IF Len(params) > 0 THEN SvcCall("run", cur, q, params)
    ELSE SvcCall("exec", cur, q, params)

GetAllRows(cur, q, params) ==
    IF cur = NoDb THEN SvcThrow(NotAvailable)
    ELSE SvcCall("all", cur, q, params)

GetFirstRow(cur, q, params) ==
    IF cur = NoDb THEN SvcThrow(NotAvailable)
    ELSE SvcCall("first", cur, q, params)

\* catch (error) { console.error(...); return undefined } : the failure is swallowed.
SettleSwallow(dres) == [threw |-> FALSE, error |-> ""]

\* The tail of the three methods: the awaited driver result is returned, a
\* driver failure is logged and rethrown as it is.
Settle(dres) ==
    IF dres.ok THEN [threw |-> FALSE, error |-> ""]
    ELSE [threw |-> TRUE, error |-> dres.error]

\* ----- route handlers (app.d1example.tsx) --------------------------------
FormVals == {"true", "false", "on"}      \* formData.get("isChecked")
ActionNames == {"updateSettings", "other"}  \* formData.get("action")

Idle == [kind |-> "idle", ctx |-> NoDb, pc |-> "idle", op |-> NoOp,
         isChecked |-> JUndef, nops |-> 0, rt |-> JUndef, solo |-> FALSE]

Body(succ, chk, avail, hasAll, rows, hasErr, err) ==
    [threw |-> FALSE, success |-> succ, isChecked |-> chk, dbAvailable |-> avail,
     hasAll |-> hasAll, allSettings |-> rows, hasError |-> hasErr, error |-> err]

\* The handler lets the error escape (the request fails with an exception).
Escapes(err) ==
    [threw |-> TRUE, success |-> JUndef, isChecked |-> JUndef, dbAvailable |-> JUndef,
     hasAll |-> FALSE, allSettings |-> <<>>, hasError |-> TRUE, error |-> err]

NoBody == Body(JUndef, JUndef, JUndef, FALSE, <<>>, FALSE, "")

\* loader: return json({isChecked, settingsTableName, dbAvailable: true, allSettings})
LoaderOk(chk, rows) == Body(JUndef, chk, JBool(TRUE), TRUE, rows, FALSE, "")
\* loader: the catch block
LoaderCatch(err) == Body(JUndef, JBool(FALSE), JBool(FALSE), TRUE, <<>>, TRUE, err)
\* loader: database not available
LoaderDefault == Body(JUndef, JBool(FALSE), JBool(FALSE), TRUE, <<>>, FALSE, "")
\* action: success response built from allSettings.rows (undefined) || []
ActionOkNoRows(chk, rows) == Body(JBool(TRUE), chk, JUndef, TRUE, <<>>, FALSE, "")
\* action: success response
ActionOk(chk, rows) == Body(JBool(TRUE), chk, JUndef, TRUE, rows, FALSE, "")
\* action: the catch block
ActionCatch(err) == Body(JBool(FALSE), JUndef, JUndef, FALSE, <<>>, TRUE, err)
\* action: database not available
ActionUnavailable == Body(JBool(FALSE), JUndef, JUndef, FALSE, <<>>, TRUE, NotAvailable)
\* action: unknown action
ActionUnknown == Body(JBool(FALSE), JUndef, JUndef, FALSE, <<>>, TRUE, "Unknown action")

\* const isChecked = result && result.value === "true"
Coerce(first, value) == IF first = JNull THEN JNull ELSE JBool(value = "true")

NoWrite == [n |-> 0, b |-> FALSE, ts |-> 0, by |-> 0, ok |-> FALSE]

NoAudit == [kind |-> "none", ctx |-> NoDb, nops |-> 0, failed |-> FALSE,
            rt |-> JUndef, sent |-> JUndef, solo |-> FALSE]

\* No handler returns in this step.
Silent == resp' = NoBody /\ audit' = NoAudit

\* The handler of slot r returns: the response is recorded, the slot is free.
Respond(r, kind, body, failed, sent) ==
    /\ resp' = body
    /\ audit' = [kind |-> kind, ctx |-> req[r].ctx, nops |-> req[r].nops,
                 failed |-> failed, rt |-> req[r].rt, sent |-> sent, solo |-> req[r].solo]
    /\ req' = [req EXCEPT ![r] = Idle]

\* A handler returns before its first await (no slot is ever occupied).
RespondNow(kind, ctx, body, sent) ==
    /\ resp' = body
    /\ audit' = [kind |-> kind, ctx |-> ctx, nops |-> 0,
                 failed |-> FALSE, rt |-> JUndef, sent |-> sent, solo |-> FALSE]
    /\ UNCHANGED req

\* A handler starts to run in slot r and reaches its first await; from now on
\* no request already in flight runs alone.
Occupy(r, slot) ==
    [q \in Reqs |-> IF q = r THEN slot ELSE [req[q] EXCEPT !.solo = FALSE]]

\* loader, lines 14-29: initFromContext, then the CREATE TABLE call is issued.
LoaderStart(r, ctx) ==
    /\ req[r].kind = "idle"
    /\ LET i == InitFromContext(thisDb, ctx)
           c == ExecuteQuery(i.db, "CREATE", <<>>)
       IN  /\ thisDb' = i.db
           /\ IF ~i.ret THEN RespondNow("loader", ctx, LoaderDefault, JUndef)
              ELSE IF c.threw THEN RespondNow("loader", ctx, LoaderCatch(c.error), JUndef)
              ELSE /\ req' = Occupy(r,
                                [kind |-> "loader", ctx |-> ctx, pc |-> "create", op |-> c.op,
                                 isChecked |-> JUndef, nops |-> 1,
                                 rt |-> IF ctx \in Handles /\ wr[ctx].ok
                                        THEN JBool(wr[ctx].b) ELSE JUndef,
                                 solo |-> FALSE])
                   /\ Silent
    /\ UNCHANGED <<db, wr, now>>

\* loader, lines 29-58: an awaited call settles and the loader runs on.
LoaderStep(r, fail) ==
    /\ req[r].kind = "loader"
    /\ LET op == req[r].op
           d == DriverRun(op, db[op.h], fail)
           s == Settle(d)
           nxt == IF req[r].pc = "create"
                  THEN GetFirstRow(thisDb, "SELECT_FIRST", <<TestKey>>)
                  ELSE GetAllRows(thisDb, "SELECT_ALL", <<>>)
           chk == IF req[r].pc = "first" THEN Coerce(d.first, d.value) ELSE req[r].isChecked
       IN  /\ db' = [db EXCEPT ![op.h] = d.tb]
           /\ IF s.threw THEN Respond(r, "loader", LoaderCatch(s.error), TRUE, JUndef)
              ELSE IF req[r].pc = "all"
                   THEN Respond(r, "loader", LoaderOk(chk, d.rows), FALSE, JUndef)
              ELSE IF nxt.threw
                   THEN Respond(r, "loader", LoaderCatch(nxt.error), FALSE, JUndef)
              ELSE /\ req' = [req EXCEPT ![r].pc = IF req[r].pc = "create" THEN "first" ELSE "all",
                                         ![r].op = nxt.op,
                                         ![r].isChecked = chk,
                                         ![r].nops = @ + 1]
                   /\ Silent
    /\ UNCHANGED <<thisDb, wr, now>>

\* action, lines 75-97: the form is parsed, initFromContext, the upsert is issued
\* (its third parameter is Date.now(), read here).
ActionStart(r, ctx, name, field) ==
    /\ req[r].kind = "idle"
    /\ LET isChecked == (field = "true")
           i == InitFromContext(thisDb, ctx)
           c == ExecuteQuery(i.db, "UPSERT",
                             <<TestKey, IF isChecked THEN "true" ELSE "false", now>>)
       IN  IF name # "updateSettings"
           THEN /\ RespondNow("action", ctx, ActionUnknown, JUndef)
                /\ UNCHANGED <<thisDb, now>>
           ELSE /\ thisDb' = i.db
                /\ IF ~i.ret
                   THEN /\ RespondNow("action", ctx, ActionUnavailable, JBool(isChecked))
                        /\ UNCHANGED now
                   ELSE IF c.threw
                        THEN /\ RespondNow("action", ctx, ActionCatch(c.error), JBool(isChecked))
                             /\ UNCHANGED now
                   ELSE /\ now < MaxClock
                        /\ now' = now + 1
                        /\ req' = Occupy(r,
                                     [kind |-> "action", ctx |-> ctx, pc |-> "upsert", op |-> c.op,
                                      isChecked |-> JBool(isChecked), nops |-> 1, rt |-> JUndef,
                                      solo |-> \A q \in Reqs \ {r} : req[q].kind = "idle"])
                        /\ Silent
    /\ UNCHANGED <<db, wr>>

\* action, lines 97-115: an awaited call settles and the action runs on.
ActionStep(r, fail) ==
    /\ req[r].kind = "action"
    /\ LET op == req[r].op
           d == DriverRun(op, db[op.h], fail)
           s == Settle(d)
           nxt == GetAllRows(thisDb, "SELECT_ALL", <<>>)
           wrote == d.ok /\ op.query = "UPSERT"
           wr1 == IF wrote
                  THEN [wr EXCEPT ![op.h] = [n |-> IF @.n < 2 THEN @.n + 1 ELSE 2,
                                             b |-> (op.params[2] = "true"),
                                             ts |-> op.params[3], by |-> r, ok |-> FALSE]]
                  ELSE wr
           ends == s.threw \/ req[r].pc = "all" \/ nxt.threw
           wr2 == [d2 \in Handles |->
                     IF wr1[d2].by = r /\ ends
                     THEN [wr1[d2] EXCEPT !.by = 0, !.ok = ~s.threw /\ req[r].pc = "all"]
                     ELSE wr1[d2]]
       IN  /\ db' = [db EXCEPT ![op.h] = d.tb]
           /\ wr' = wr2
           /\ IF s.threw
              THEN Respond(r, "action", ActionCatch(s.error), TRUE, req[r].isChecked)
              ELSE IF req[r].pc = "all"
                   THEN Respond(r, "action", ActionOk(req[r].isChecked, d.rows), FALSE,
                                req[r].isChecked)
              ELSE IF nxt.threw
                   THEN Respond(r, "action", ActionCatch(nxt.error), FALSE, req[r].isChecked)
              ELSE /\ req' = [q \in Reqs |->
                                IF q = r
                                THEN [req[r] EXCEPT !.pc = "all", !.op = nxt.op, !.nops = @ + 1]
                                ELSE IF wrote /\ req[q].kind = "loader" /\ req[q].ctx = op.h
                                     THEN [req[q] EXCEPT !.rt = JUndef]
                                     ELSE req[q]]
                   /\ Silent
    /\ UNCHANGED <<thisDb, now>>

\* A table another deployment left behind: a row under a key this page never writes.
SeededTable == [exists |-> TRUE, rows |-> <<Row("other_key", "1", 0)>>]

\* ----- the service called directly (its public methods, any caller) -----
Methods == {"executeQuery", "getAllRows", "getFirstRow"}
Statements ==
    {[query |-> "CREATE", params |-> <<>>],
     [query |-> "SELECT_FIRST", params |-> <<TestKey>>],
     [query |-> "SELECT_ALL", params |-> <<>>]}
    \cup {[query |-> "UPSERT", params |-> <<TestKey, v, t>>] :
            v \in {"true", "false"}, t \in 0..MaxClock}

NoOut == [method |-> "none", had |-> NoDb, threw |-> FALSE, error |-> "",
          calls |-> 0, dfail |-> FALSE, derror |-> ""]

Invoke(m, cur, q, params) ==
    IF m = "executeQuery" THEN ExecuteQuery(cur, q, params)
    ELSE IF m = "getAllRows" THEN GetAllRows(cur, q, params)
    ELSE GetFirstRow(cur, q, params)

\* setDb(db)
SetDb(h) ==
    /\ call = NoOp
    /\ thisDb' = h
    /\ out' = NoOut
    /\ UNCHANGED <<db, req, resp, audit, wr, now, call>>

\* initFromContext(context), called on its own
InitOnly(ctx) ==
    /\ call = NoOp
    /\ thisDb' = InitFromContext(thisDb, ctx).db
    /\ out' = NoOut
    /\ UNCHANGED <<db, req, resp, audit, wr, now, call>>

\* A method is called: it throws at once, or it awaits the driver.
MethodCall(m, st) ==
    /\ call = NoOp
    /\ LET c == Invoke(m, thisDb, st.query, st.params)
       IN  IF c.threw
           THEN /\ out' = [method |-> m, had |-> thisDb, threw |-> TRUE, error |-> c.error,
                           calls |-> 0, dfail |-> FALSE, derror |-> ""]
                /\ UNCHANGED call
           ELSE /\ call' = c.op
                /\ out' = [NoOut EXCEPT !.method = m, !.had = thisDb, !.calls = 1]
    /\ UNCHANGED <<thisDb, db, req, resp, audit, wr, now>>

\* The awaited driver call settles and the method returns or throws.
MethodSettle(fail) ==
    /\ call # NoOp
    /\ LET d == DriverRun(call, db[call.h], fail)
           s == Settle(d)
       IN  /\ db' = [db EXCEPT ![call.h] = d.tb]
           /\ out' = [out EXCEPT !.threw = s.threw, !.error = s.error,
                                 !.dfail = ~d.ok, !.derror = d.error]
    /\ call' = NoOp
    /\ UNCHANGED <<thisDb, req, resp, audit, wr, now>>

\* ----- the gallery view (app.web-components.tsx) --------------------------
Chars == {" ", "a"}
Inputs == UNION {[1..n -> Chars] : n \in 0..MaxLen}
Columns == {"name", "status", "time"}

\* UTF-16 code unit that decides the comparison of a text piece: the character
\* itself, or the first character of a fixed text.
Code(c) ==
    CASE c = " " -> 32
      [] c = "a" -> 97
      [] c = "Active" -> 65
      [] c = "Banner Notification" -> 66
      [] c = "Inactive" -> 73
      [] c = "Name Form Modal" -> 78
      [] c = "Submitted" -> 83
      [] c = "Submitted Name: " -> 83
      [] c = "Toast Notification" -> 84

\* JavaScript's a < b on strings (sequences of text pieces): code-unit order.
RECURSIVE StrLess(_, _)
StrLess(a, b) ==
    IF b = <<>> THEN FALSE
    ELSE IF a = <<>> THEN TRUE
    ELSE IF Code(Head(a)) # Code(Head(b)) THEN Code(Head(a)) < Code(Head(b))
    ELSE StrLess(Tail(a), Tail(b))

\* String.prototype.trim on a sequence of characters
RECURSIVE TrimLeft(_)
TrimLeft(v) == IF v # <<>> /\ Head(v) = " " THEN TrimLeft(Tail(v)) ELSE v
RECURSIVE TrimRight(_)
TrimRight(v) ==
    IF v # <<>> /\ v[Len(v)] = " " THEN TrimRight(SubSeq(v, 1, Len(v) - 1)) ELSE v
Trim(v) == TrimRight(TrimLeft(v))

Entry(id, n, name, status, time) ==
    [id |-> id, n |-> n, name |-> name, status |-> status, time |-> time]

\* useState initial value, lines 10-14
SeedData(t) ==
    <<Entry("banner", 0, <<"Banner Notification">>, "Inactive", t),
      Entry("toast", 0, <<"Toast Notification">>, "Inactive", t),
      Entry("modal", 0, <<"Name Form Modal">>, "Inactive", t)>>

\* a[sortConfig.key] < b[sortConfig.key]; the time column holds display
\* strings, stood for by numbers in the strings' order.
FieldLess(a, b, key) ==
    IF key = "name" THEN StrLess(a.name, b.name)
    ELSE IF key = "status" THEN Code(a.status) < Code(b.status)
    ELSE a.time < b.time

\* A comparator that never answers 0 (<= in place of <).
CompareNoTie(a, b, cfg) ==
    IF ~FieldLess(b, a, cfg.key) THEN (IF cfg.direction = "asc" THEN -1 ELSE 1)
    ELSE (IF cfg.direction = "asc" THEN 1 ELSE -1)

\* The comparator handed to sort, lines 41-49
Compare(a, b, cfg) ==
    IF FieldLess(a, b, cfg.key) THEN (IF cfg.direction = "asc" THEN -1 ELSE 1)
    ELSE IF FieldLess(b, a, cfg.key) THEN (IF cfg.direction = "asc" THEN 1 ELSE -1)
    ELSE 0

\* Array.prototype.sort, which is stable: each element goes behind the last
\* element that does not compare greater than it.
RECURSIVE InsertSorted(_, _, _)
InsertSorted(x, sorted, cfg) ==
    IF sorted = <<>> THEN <<x>>
    ELSE IF Compare(sorted[Len(sorted)], x, cfg) <= 0 THEN Append(sorted, x)
    ELSE Append(InsertSorted(x, SubSeq(sorted, 1, Len(sorted) - 1), cfg), sorted[Len(sorted)])

RECURSIVE SortBy(_, _)
SortBy(data, cfg) ==
    IF data = <<>> THEN <<>>
    ELSE InsertSorted(data[Len(data)], SortBy(SubSeq(data, 1, Len(data) - 1), cfg), cfg)

\* useMemo, lines 38-50
sortedComponentStatusData ==
    IF sortConfig.key = "null" THEN componentStatusData
    ELSE SortBy(componentStatusData, sortConfig)

\* updateComponentStatus with filter in place of map: the other entries go.
updateComponentStatusFilter(data, id, status, t) ==
    LET Hit(e) == e.id = id
        kept == SelectSeq(data, Hit)
    IN  [i \in 1..Len(kept) |-> [kept[i] EXCEPT !.status = status, !.time = t]]

\* updateComponentStatus(id, status), lines 167-175
updateComponentStatus(data, id, status, t) ==
    [i \in 1..Len(data) |->
        IF data[i].id = id THEN [data[i] EXCEPT !.status = status, !.time = t] ELSE data[i]]

\* addSubmittedNameToComponentStatus(name, time), lines 178-186
addSubmittedNameToComponentStatus(data, name, t) ==
    Append(data, Entry("submitted", t, <<"Submitted Name: ">> \o name, "Submitted", t))

\* handleSort that always sorts ascending (no toggle).
HandleSortNoToggle(key) ==
    /\ sortConfig' = [key |-> key, direction |-> "asc"]
    /\ clicks' = IF sortConfig.key = key THEN (IF clicks < 3 THEN clicks + 1 ELSE 3) ELSE 1
    /\ UNCHANGED <<showBanner, bannerBox, toastChecked, toastBox, timers, submittedNames,
                   nameInputValue, componentStatusData, modalOpen, shopifyToast, gnow>>

\* handleSort(key), lines 29-35
HandleSort(key) ==
    /\ sortConfig' = [key |-> key,
                      direction |-> IF sortConfig.key = key /\ sortConfig.direction = "asc"
                                    THEN "desc" ELSE "asc"]
    /\ clicks' = IF sortConfig.key = key THEN (IF clicks < 3 THEN clicks + 1 ELSE 3) ELSE 1
    /\ UNCHANGED <<showBanner, bannerBox, toastChecked, toastBox, timers, submittedNames,
                   nameInputValue, componentStatusData, modalOpen, shopifyToast, gnow>>

\* handleCheckboxChange of the banner checkbox, lines 54-60
BannerChange ==
    /\ bannerBox' = ~bannerBox
    /\ showBanner' = bannerBox'
    /\ componentStatusData' = updateComponentStatus(componentStatusData, "banner",
                                  IF bannerBox' THEN "Active" ELSE "Inactive", gnow)
    /\ UNCHANGED <<toastChecked, toastBox, timers, submittedNames, nameInputValue,
                   sortConfig, modalOpen, shopifyToast, clicks, gnow>>

\* handleBannerDismiss, lines 76-85 (the banner exists while showBanner)
BannerDismiss ==
    /\ showBanner
    /\ showBanner' = FALSE
    /\ bannerBox' = FALSE
    /\ componentStatusData' = updateComponentStatus(componentStatusData, "banner",
                                                    "Inactive", gnow)
    /\ UNCHANGED <<toastChecked, toastBox, timers, submittedNames, nameInputValue,
                   sortConfig, modalOpen, shopifyToast, clicks, gnow>>

\* handleToastCheckboxChange, lines 101-121
ToastChange ==
    /\ toastBox' = ~toastBox
    /\ toastBox' => timers < MaxTimers
    /\ toastChecked' = toastBox'
    /\ componentStatusData' = updateComponentStatus(componentStatusData, "toast",
                                  IF toastBox' THEN "Active" ELSE "Inactive", gnow)
    /\ shopifyToast' = IF toastBox' THEN "Action completed successfully!" ELSE shopifyToast
    /\ timers' = IF toastBox' THEN timers + 1 ELSE timers
    /\ UNCHANGED <<showBanner, bannerBox, submittedNames, nameInputValue, sortConfig,
                   modalOpen, clicks, gnow>>

\* A timeout callback that finds no checkbox and resets nothing.
ToastTimerNoReset ==
    /\ timers > 0
    /\ timers' = timers - 1
    /\ UNCHANGED <<toastBox, toastChecked, componentStatusData>>
    /\ UNCHANGED <<showBanner, bannerBox, submittedNames, nameInputValue, sortConfig,
                   modalOpen, shopifyToast, clicks, gnow>>

\* the setTimeout callback, lines 112-119
ToastTimer ==
    /\ timers > 0
    /\ timers' = timers - 1
    /\ toastBox' = FALSE
    /\ toastChecked' = FALSE
    /\ componentStatusData' = updateComponentStatus(componentStatusData, "toast",
                                                    "Inactive", gnow)
    /\ UNCHANGED <<showBanner, bannerBox, submittedNames, nameInputValue, sortConfig,
                   modalOpen, shopifyToast, clicks, gnow>>

\* click on "Open Modal": modal.show(), then the 'show' listener, lines 144-152
ModalShow ==
    /\ ~modalOpen
    /\ modalOpen' = TRUE
    /\ componentStatusData' = updateComponentStatus(componentStatusData, "modal",
                                                    "Active", gnow)
    /\ UNCHANGED <<showBanner, bannerBox, toastChecked, toastBox, timers, submittedNames,
                   nameInputValue, sortConfig, shopifyToast, clicks, gnow>>

\* the modal is closed by the user: the 'hide' listener, line 145
ModalHide ==
    /\ modalOpen
    /\ modalOpen' = FALSE
    /\ componentStatusData' = updateComponentStatus(componentStatusData, "modal",
                                                    "Inactive", gnow)
    /\ UNCHANGED <<showBanner, bannerBox, toastChecked, toastBox, timers, submittedNames,
                   nameInputValue, sortConfig, shopifyToast, clicks, gnow>>

\* handleNameChange, lines 189-191
HandleNameChange(v) ==
    /\ modalOpen
    /\ nameInputValue' = v
    /\ UNCHANGED <<showBanner, bannerBox, toastChecked, toastBox, timers, submittedNames,
                   componentStatusData, sortConfig, modalOpen, shopifyToast, clicks, gnow>>

\* handleSave without the trim test: if (nameInputValue) { ... }
HandleSaveNoTrim ==
    /\ modalOpen
    /\ IF nameInputValue # <<>>
       THEN /\ Len(submittedNames) < MaxNames
            /\ submittedNames' = Append(submittedNames,
                                        [name |-> Trim(nameInputValue), time |-> gnow])
            /\ nameInputValue' = <<>>
            /\ modalOpen' = FALSE
            /\ componentStatusData' =
                   updateComponentStatus(
                       addSubmittedNameToComponentStatus(componentStatusData,
                                                         Trim(nameInputValue), gnow),
                       "modal", "Inactive", gnow)
            /\ UNCHANGED shopifyToast
       ELSE /\ shopifyToast' = "Please enter a name before saving"
            /\ UNCHANGED <<submittedNames, nameInputValue, modalOpen, componentStatusData>>
    /\ UNCHANGED <<showBanner, bannerBox, toastChecked, toastBox, timers, sortConfig,
                   clicks, gnow>>

\* handleSave, lines 194-216 (modal.hide() runs the 'hide' listener)
HandleSave ==
    /\ modalOpen
    /\ IF nameInputValue # <<>> /\ Trim(nameInputValue) # <<>>
       THEN /\ Len(submittedNames) < MaxNames
            /\ submittedNames' = Append(submittedNames,
                                        [name |-> Trim(nameInputValue), time |-> gnow])
            /\ nameInputValue' = <<>>
            /\ modalOpen' = FALSE
            /\ componentStatusData' =
                   updateComponentStatus(
                       addSubmittedNameToComponentStatus(componentStatusData,
                                                         Trim(nameInputValue), gnow),
                       "modal", "Inactive", gnow)
            /\ UNCHANGED shopifyToast
       ELSE /\ shopifyToast' = "Please enter a name before saving"
            /\ UNCHANGED <<submittedNames, nameInputValue, modalOpen, componentStatusData>>
    /\ UNCHANGED <<showBanner, bannerBox, toastChecked, toastBox, timers, sortConfig,
                   clicks, gnow>>

\* handleCancel, lines 219-224
HandleCancel ==
    /\ modalOpen
    /\ nameInputValue' = <<>>
    /\ modalOpen' = FALSE
    /\ componentStatusData' = updateComponentStatus(componentStatusData, "modal",
                                                    "Inactive", gnow)
    /\ UNCHANGED <<showBanner, bannerBox, toastChecked, toastBox, timers, submittedNames,
                   sortConfig, shopifyToast, clicks, gnow>>

\* time passes in the view
GTick ==
    /\ gnow < MaxTime
    /\ gnow' = gnow + 1
    /\ UNCHANGED <<showBanner, bannerBox, toastChecked, toastBox, timers, submittedNames,
                   nameInputValue, componentStatusData, sortConfig, modalOpen, shopifyToast,
                   clicks>>

\* ----- the settings page (Index, app.d1example.tsx:136-283) --------------
\* if (x): a boolean that is true (null, undefined and false are falsy).
Truthy(x) == x.t = "boolean" /\ x.v

Closed == [phase |-> "closed", ctx |-> NoDb, dbAvailable |-> JUndef,
           checkboxState |-> JUndef, fstate |-> "idle", fdata |-> NoBody,
           saveError |-> "", tableData |-> <<>>, toast |-> "",
           sent |-> 0, got |-> <<>>, made |-> {}]

\* The document request and the revalidation after a fetcher action: GET.
LoadMsg(v, ctx) == [v |-> v, kind |-> "load", ctx |-> ctx, field |-> "", seq |-> 0]
\* fetcher.submit(formData, {method: "post"}), lines 175-180.
WriteMsg(v, ctx, checked, seq) ==
    [v |-> v, kind |-> "write", ctx |-> ctx,
     field |-> IF checked THEN "true" ELSE "false", seq |-> seq]

\* The Checkbox is rendered enabled all the time.
NeverDisabled(v) == FALSE
\* disabled={fetcher.state !== "idle"}, line 220.
Disabled(v) == index[v].fstate # "idle"

\* The handler submits without looking at dbAvailable.
CanSubmitAlways(v) == TRUE
\* if (dbAvailable), line 173.
CanSubmit(v) == Truthy(index[v].dbAvailable)

\* A response reaches the page.  The first loader response mounts Index
\* (useLoaderData and the useState initial values, lines 141-149); a later
\* one is the revalidation that ends a fetcher submission.  An action
\* response becomes fetcher.data and the effect of lines 152-164 runs.
Deliver(s, kind, body) ==
    IF kind = "loader"
    THEN IF s.phase = "loading"
         THEN [s EXCEPT !.phase = "open", !.dbAvailable = body.dbAvailable,
                        !.checkboxState = body.isChecked,
                        !.tableData = body.allSettings]
         ELSE [s EXCEPT !.dbAvailable = body.dbAvailable, !.fstate = "idle"]
    ELSE [s EXCEPT !.fdata = body,
                   !.fstate = "loading",
                   !.saveError = IF ~Truthy(body.success) /\ body.error # ""
                                 THEN body.error ELSE "",
                   !.tableData = IF Truthy(body.success) /\ body.hasAll
                                 THEN body.allSettings ELSE @]

\* The requests the page sends when a response has reached it: after a
\* fetcher action the route's loader is revalidated.
FollowUp(v, kind) == IF kind = "action" THEN {LoadMsg(v, index[v].ctx)} ELSE {}

\* The page is opened in a tab whose worker context carries ctx.
OpenPage(v, ctx) ==
    /\ index[v].phase = "closed"
    /\ index' = [index EXCEPT ![v] = [Closed EXCEPT !.phase = "loading", !.ctx = ctx]]
    /\ net' = net \cup {LoadMsg(v, ctx)}
    /\ Silent
    /\ UNCHANGED <<thisDb, db, req, wr, now, owner>>

\* handleCheckboxChange(checked), lines 170-190; Polaris passes the negated
\* checked state of the box.
HandleCheckboxChange(v) ==
    LET s == index[v]
        checked == ~Truthy(s.checkboxState)
    IN  /\ s.phase = "open"
        /\ ~Disabled(v)
        /\ IF CanSubmit(v)
           THEN /\ s.sent < MaxToggles
                /\ net' = net \cup {WriteMsg(v, s.ctx, checked, s.sent + 1)}
                /\ index' = [index EXCEPT ![v] =
                      [s EXCEPT !.checkboxState = JBool(checked),
                                !.fstate = "submitting",
                                !.sent = @ + 1,
                                !.toast = IF s.fdata = NoBody \/ Truthy(s.fdata.success)
                                          THEN "Setting saved" ELSE @]]
           ELSE /\ index' = [index EXCEPT ![v] =
                      [s EXCEPT !.checkboxState = JBool(checked),
                                !.toast = "Database not available, setting not saved"]]
                /\ UNCHANGED net
        /\ Silent
        /\ UNCHANGED <<thisDb, db, req, wr, now, owner>>

\* The worker starts the handler of a request a page has sent: loader for a
\* GET, action for the POST.  A handler that returns before its first await
\* answers at once.
Arrive(m, r) ==
    /\ m \in net
    /\ IF m.kind = "load" THEN LoaderStart(r, m.ctx)
       ELSE ActionStart(r, m.ctx, "updateSettings", m.field)
    /\ LET s == IF m.kind = "write"
                THEN [index[m.v] EXCEPT !.got = Append(@, m.seq)]
                ELSE index[m.v]
       IN  IF audit'.kind = "none"
           THEN /\ owner' = [owner EXCEPT ![r] = m.v]
                /\ index' = [index EXCEPT ![m.v] = s]
                /\ net' = net \ {m}
           ELSE /\ index' = [index EXCEPT ![m.v] = Deliver(s, audit'.kind, resp')]
                /\ net' = (net \ {m}) \cup FollowUp(m.v, audit'.kind)
                /\ UNCHANGED owner

\* The response of slot r, if this step produced one, goes to the page that
\* sent the request; a CREATE TABLE that the database executed is noted.
Return(r) ==
    LET v == owner[r]
        created == req[r].kind = "loader" /\ req[r].pc = "create" /\ ~audit'.failed
        s == IF created THEN [index[v] EXCEPT !.made = @ \cup {req[r].op.h}] ELSE index[v]
    IN  IF v = 0 THEN UNCHANGED vvars
        ELSE IF audit'.kind = "none"
             THEN /\ index' = [index EXCEPT ![v] = s]
                  /\ UNCHANGED <<net, owner>>
             ELSE /\ index' = [index EXCEPT ![v] = Deliver(s, audit'.kind, resp')]
                  /\ net' = net \cup FollowUp(v, audit'.kind)
                  /\ owner' = [owner EXCEPT ![r] = 0]

\* A loader of the worker runs on (whoever sent the request).
ServeLoader(r, fail) == LoaderStep(r, fail) /\ Return(r)

\* An action of the worker runs on.
ServeAction(r, fail) == ActionStep(r, fail) /\ Return(r)

\* Another client posts the form to the route without a page.
DirectPost(r, ctx, field) ==
    /\ ActionStart(r, ctx, "updateSettings", field)
    /\ UNCHANGED vvars

\* No page is open and nothing is on its way.
InitIndex ==
    /\ index = [v \in Views |-> Closed]
    /\ net = {}
    /\ owner = [r \in Reqs |-> 0]

\* const dbService = new DatabaseService(): no handle; no request has run.
InitService ==
    /\ thisDb = NoDb
    /\ req = [r \in Reqs |-> Idle]
    /\ resp = NoBody
    /\ audit = NoAudit
    /\ wr = [d \in Handles |-> NoWrite]
    /\ now = 0
    /\ call = NoOp
    /\ out = NoOut

\* The view is mounted: the useState initial values.
InitView ==
    /\ showBanner = FALSE
    /\ bannerBox = FALSE
    /\ toastChecked = FALSE
    /\ toastBox = FALSE
    /\ timers = 0
    /\ submittedNames = <<>>
    /\ nameInputValue = <<>>
    /\ componentStatusData = SeedData(0)
    /\ sortConfig = [key |-> "null", direction |-> "asc"]
    /\ modalOpen = FALSE
    /\ shopifyToast = ""
    /\ clicks = 0
    /\ gnow = 0

\* Each database starts without example_table or with the table left behind.
Init ==
    /\ InitService
    /\ db \in [Handles -> {NoTable, SeededTable}]
    /\ InitView
    /\ InitIndex

\* The gallery never touches a database.
InitGallery ==
    /\ InitService
    /\ db = [d \in Handles |-> NoTable]
    /\ InitView
    /\ InitIndex

Next ==
    \/ /\ \E r \in Reqs, ctx \in {NoDb} \cup Handles : LoaderStart(r, ctx)
       /\ UNCHANGED <<dvars, gvars, vvars>>
    \/ /\ \E r \in Reqs, fail \in BOOLEAN : LoaderStep(r, fail)
       /\ UNCHANGED <<dvars, gvars, vvars>>
    \/ /\ \E r \in Reqs, ctx \in {NoDb} \cup Handles, name \in ActionNames, field \in FormVals :
             ActionStart(r, ctx, name, field)
       /\ UNCHANGED <<dvars, gvars, vvars>>
    \/ /\ \E r \in Reqs, fail \in BOOLEAN : ActionStep(r, fail)
       /\ UNCHANGED <<dvars, gvars, vvars>>

Spec == Init /\ [][Next]_vars

NextSvc ==
    \/ /\ \E h \in Handles : SetDb(h)
       /\ UNCHANGED <<gvars, vvars>>
    \/ /\ \E ctx \in {NoDb} \cup Handles : InitOnly(ctx)
       /\ UNCHANGED <<gvars, vvars>>
    \/ /\ \E m \in Methods, st \in Statements : MethodCall(m, st)
       /\ UNCHANGED <<gvars, vvars>>
    \/ /\ \E fail \in BOOLEAN : MethodSettle(fail)
       /\ UNCHANGED <<gvars, vvars>>

SpecSvc == Init /\ [][NextSvc]_vars

NextGallery ==
    \/ /\ \E key \in Columns : HandleSort(key)
       /\ UNCHANGED <<svars, dvars, vvars>>
    \/ /\ BannerChange
       /\ UNCHANGED <<svars, dvars, vvars>>
    \/ /\ BannerDismiss
       /\ UNCHANGED <<svars, dvars, vvars>>
    \/ /\ ToastChange
       /\ UNCHANGED <<svars, dvars, vvars>>
    \/ /\ ToastTimer
       /\ UNCHANGED <<svars, dvars, vvars>>
    \/ /\ ModalShow
       /\ UNCHANGED <<svars, dvars, vvars>>
    \/ /\ ModalHide
       /\ UNCHANGED <<svars, dvars, vvars>>
    \/ /\ \E v \in Inputs : HandleNameChange(v)
       /\ UNCHANGED <<svars, dvars, vvars>>
    \/ /\ HandleSave
       /\ UNCHANGED <<svars, dvars, vvars>>
    \/ /\ HandleCancel
       /\ UNCHANGED <<svars, dvars, vvars>>
    \/ /\ GTick
       /\ UNCHANGED <<svars, dvars, vvars>>

SpecGallery == InitGallery /\ [][NextGallery]_vars

\* A timeout that has been set fires: the event loop runs its callback once
\* the 4000 ms are over.
SpecGalleryFair ==
    /\ InitGallery
    /\ [][NextGallery]_vars
    /\ WF_vars(ToastTimer /\ UNCHANGED <<svars, dvars, vvars>>)

NextView ==
    \/ /\ \E v \in Views, ctx \in {NoDb} \cup Handles : OpenPage(v, ctx)
       /\ UNCHANGED <<dvars, gvars>>
    \/ /\ \E v \in Views : HandleCheckboxChange(v)
       /\ UNCHANGED <<dvars, gvars>>
    \/ /\ \E m \in net, r \in Reqs : Arrive(m, r)
       /\ UNCHANGED <<dvars, gvars>>
    \/ /\ \E r \in Reqs, fail \in BOOLEAN : ServeLoader(r, fail)
       /\ UNCHANGED <<dvars, gvars>>
    \/ /\ \E r \in Reqs, fail \in BOOLEAN : ServeAction(r, fail)
       /\ UNCHANGED <<dvars, gvars>>
    \/ /\ \E r \in Reqs, ctx \in Handles, field \in {"true", "false"} :
             DirectPost(r, ctx, field)
       /\ UNCHANGED <<dvars, gvars>>

SpecView == Init /\ [][NextView]_vars

\* ----- properties ---------------------------------------------------------
Text(b) == IF b THEN "true" ELSE "false"
TestRows(d) == RowsWithKey(db[d].rows, TestKey)
Quiet == \A r \in Reqs : req[r].kind = "idle"

\* C1: round trip.  A loader that started when the latest upsert on its own
\* database belonged to an action that had returned success with isChecked = b,
\* and during which no upsert ran on that database, returns (when it returns
\* dbAvailable = true) a payload whose isChecked is b.
C1_RoundTrip ==
    (audit.kind = "loader" /\ resp.dbAvailable = JBool(TRUE) /\ audit.rt # JUndef)
        => resp.isChecked = audit.rt

\* C2: every example_table holds at most one row with key 'test_checkbox', and
\* once two or more upserts have run on it that row carries the value and the
\* updated_at of the upsert that ran last.
C2_OneRowLatestWrite ==
    \A d \in Handles :
        /\ Len(TestRows(d)) <= 1
        /\ wr[d].n >= 2 => TestRows(d) = <<Row(TestKey, Text(wr[d].b), wr[d].ts)>>

C2_Witness ==
    \E d \in Handles : wr[d].n >= 2 /\ wr[d].ts > 0 /\ Len(db[d].rows) = 2

\* C3: a request whose context carries no binding issues no database
\* operation; the loader returns dbAvailable=false, isChecked=false and an empty
\* allSettings without throwing, the action 'updateSettings' returns
\* success=false with a non-empty error string.
C3_NoBinding ==
    /\ \A r \in Reqs : req[r].kind # "idle" => req[r].ctx # NoDb
    /\ (audit.kind = "loader" /\ audit.ctx = NoDb) =>
          /\ ~resp.threw
          /\ resp.dbAvailable = JBool(FALSE)
          /\ resp.isChecked = JBool(FALSE)
          /\ resp.hasAll /\ resp.allSettings = <<>>
          /\ audit.nops = 0
    /\ (audit.kind = "action" /\ audit.ctx = NoDb /\ audit.sent # JUndef) =>
          /\ ~resp.threw
          /\ resp.success = JBool(FALSE)
          /\ resp.hasError /\ resp.error # ""
          /\ audit.nops = 0

\* A request without binding is answered while an earlier request's handle is
\* still installed in the singleton.
C3_Witness ==
    /\ audit.kind \in {"loader", "action"} /\ audit.ctx = NoDb /\ audit.sent # JUndef
    /\ thisDb # NoDb

\* C4: each of executeQuery, getAllRows and getFirstRow throws 'Database not
\* available' without a driver call when no handle is set; with a handle set, a
\* driver failure is thrown on to the caller as it is, after one driver call.
C4_ServiceErrors ==
    /\ (out.method # "none" /\ out.had = NoDb) =>
          out.threw /\ out.error = NotAvailable /\ out.calls = 0 /\ call = NoOp
    /\ (out.method # "none" /\ out.had # NoDb /\ call = NoOp /\ out.dfail) =>
          out.threw /\ out.error = out.derror /\ out.calls = 1

C4_Witness ==
    out.method = "getFirstRow" /\ out.had # NoDb /\ call = NoOp /\ out.dfail
        /\ out.derror = NoSuchTable

\* C5: a driver failure at any database step never escapes the handler: the
\* loader returns isChecked=false, an empty allSettings and the error string,
\* the action returns success=false and the error string.
C5_FailureContained ==
    audit.failed =>
        /\ ~resp.threw
        /\ resp.hasError
        /\ resp.error \in {DriverError, NoSuchTable}
        /\ audit.kind = "loader" =>
              /\ resp.isChecked = JBool(FALSE)
              /\ resp.hasAll /\ resp.allSettings = <<>>
        /\ audit.kind = "action" => resp.success = JBool(FALSE)

\* The loader's last call (getAllRows) fails after two calls went through.
C5_Witness == audit.failed /\ audit.kind = "loader" /\ audit.nops = 3

\* C6: once every action has completed, a database on which upserts ran holds
\* exactly one row for 'test_checkbox', with the value of the upsert the
\* database executed last.
C6_LastWriteWins ==
    (\A r \in Reqs : req[r].kind # "action") =>
        \A d \in Handles :
            wr[d].n >= 1 =>
                /\ Len(TestRows(d)) = 1
                /\ TestRows(d)[1].value = Text(wr[d].b)

\* Two actions raced: the upsert issued first (timestamp 0) ran last.
C6_Witness ==
    /\ Quiet
    /\ \E d \in Handles : wr[d].n = 2 /\ wr[d].ts = 0 /\ Len(TestRows(d)) = 1

\* C7: every database operation a request issues runs against the handle of
\* that request's own context.
C7_OwnHandle ==
    \A r \in Reqs : req[r].kind # "idle" => req[r].op.h = req[r].ctx

\* C8: handleSort on the column that is the current sort key flips the
\* direction between ascending and descending; handleSort on another column
\* makes that column the key, ascending.
C8_SortToggle ==
    [][\A k \in Columns :
          HandleSort(k) =>
              /\ sortConfig'.key = k
              /\ sortConfig'.direction =
                    IF sortConfig.key # k THEN "asc"
                    ELSE IF sortConfig.direction = "asc" THEN "desc" ELSE "asc"]_vars

\* The same column was clicked three times: ascending, descending, ascending.
C8_Witness == clicks = 3 /\ sortConfig.key = "status" /\ sortConfig.direction = "asc"

Perms(n) == {p \in [1..n -> 1..n] : \A i, j \in 1..n : i # j => p[i] # p[j]}
Tie(a, b, key) == ~FieldLess(a, b, key) /\ ~FieldLess(b, a, key)

\* C9: a column starts unsorted (the rows are shown as stored), the first click
\* on it sorts ascending and the second descending; the rows shown are the
\* stored rows in the order of the sort key, and rows that compare equal on the
\* key keep their stored relative order.
C9_ThreeStateStable ==
    /\ clicks = 0 => sortConfig.key = "null" /\ sortedComponentStatusData = componentStatusData
    /\ clicks = 1 => sortConfig.direction = "asc"
    /\ clicks = 2 => sortConfig.direction = "desc"
    /\ sortConfig.key # "null" =>
          LET shown == sortedComponentStatusData
              n == Len(componentStatusData)
              k == sortConfig.key
          IN  /\ Len(shown) = n
              /\ \A i, j \in 1..n :
                    i < j => IF sortConfig.direction = "asc"
                             THEN ~FieldLess(shown[j], shown[i], k)
                             ELSE ~FieldLess(shown[i], shown[j], k)
              /\ \E p \in Perms(n) :
                    /\ \A i \in 1..n : shown[i] = componentStatusData[p[i]]
                    /\ \A i, j \in 1..n :
                          (i < j /\ Tie(shown[i], shown[j], k)) => p[i] < p[j]

\* Second click on the status column while the banner is Active: descending
\* order moves the two Inactive rows, which tie, in front of the banner row.
C9_Witness ==
    /\ clicks = 2 /\ sortConfig.key = "status" /\ sortConfig.direction = "desc"
    /\ sortedComponentStatusData # componentStatusData
    /\ \E i, j \in 1..Len(componentStatusData) :
          i < j /\ Tie(componentStatusData[i], componentStatusData[j], "status")

\* C10: handleSave with an empty or whitespace-only name input leaves the
\* submitted names, the status log and the input value as they are and does not
\* hide the modal.
C10_EmptySaveNoEffect ==
    [][(HandleSave /\ Trim(nameInputValue) = <<>>) =>
          /\ UNCHANGED <<submittedNames, componentStatusData, nameInputValue>>
          /\ modalOpen /\ modalOpen']_vars

\* A whitespace-only name was refused: the notice is up, the modal still open.
C10_Witness ==
    /\ shopifyToast = "Please enter a name before saving"
    /\ modalOpen
    /\ nameInputValue # <<>> /\ Trim(nameInputValue) = <<>>
    /\ submittedNames = <<>>

\* C11: the isChecked of every loader payload is a boolean: the value the
\* loader computes from its getFirstRow result is true exactly when the stored
\* value for 'test_checkbox' (in the database the call ran on) is the string
\* "true", and false otherwise, also when there is no row for the key.
C11_IsCheckedBoolean ==
    [][/\ audit'.kind = "loader" => resp'.isChecked.t = "boolean"
       /\ \A r \in Reqs :
             (req[r].kind = "loader" /\ req[r].pc = "first" /\ req'[r].pc = "all") =>
                 req'[r].isChecked =
                     JBool(/\ TestRows(req[r].op.h) # <<>>
                           /\ TestRows(req[r].op.h)[1].value = "true")]_vars

\* C12 as stated: every successful 'updateSettings' response carries exactly
\* one row for 'test_checkbox', whose value is the stringified isChecked of
\* that response, also when other writers run concurrently.
C12_RefreshedRowSet ==
    (audit.kind = "action" /\ resp.success = JBool(TRUE)) =>
        /\ Len(RowsWithKey(resp.allSettings, TestKey)) = 1
        /\ RowsWithKey(resp.allSettings, TestKey)[1].value = Text(resp.isChecked.v)

\* C12 amended: every successful 'updateSettings' response carries at most one
\* row for 'test_checkbox'; when no other request was in flight while the
\* action ran, it carries exactly one, with the stringified isChecked of that
\* response as its value.
C12_RefreshedRowSetAlone ==
    (audit.kind = "action" /\ resp.success = JBool(TRUE)) =>
        /\ Len(RowsWithKey(resp.allSettings, TestKey)) <= 1
        /\ audit.solo =>
              /\ Len(RowsWithKey(resp.allSettings, TestKey)) = 1
              /\ RowsWithKey(resp.allSettings, TestKey)[1].value = Text(resp.isChecked.v)

\* An action that ran alone overwrote an earlier value and returns the new row
\* next to the row of another key.
C12_Witness ==
    /\ audit.kind = "action" /\ resp.success = JBool(TRUE) /\ audit.solo
    /\ Len(resp.allSettings) = 2
    /\ \E d \in Handles : wr[d].n = 2
    /\ resp.isChecked = JBool(FALSE)

\* Writes of page v that are outstanding: sent and not yet answered.
Outstanding(v) ==
    Cardinality({m \in net : m.v = v /\ m.kind = "write"})
    + Cardinality({r \in Reqs : owner[r] = v /\ req[r].kind = "action"})

\* C13: while a write of a settings page is outstanding its fetcher is not
\* idle, which is when the toggle is rendered disabled; a page never has two writes outstanding at once; and the writes
\* of a page reach the server in the order the toggles were made.
C13_OneWriteInOrder ==
    \A v \in Views :
        /\ Outstanding(v) > 0 => index[v].fstate \in {"submitting", "loading"}
        /\ Outstanding(v) <= 1
        /\ index[v].got = [i \in 1..Len(index[v].got) |-> i]

\* The second write of a page has reached the server after its first and is
\* still running; the toggle is disabled.
C13_Witness ==
    \E v \in Views :
        /\ index[v].got = <<1, 2>>
        /\ Outstanding(v) = 1
        /\ index[v].fstate = "submitting"

\* C14: a settings page submits a write only while the dbAvailable of its
\* loader data is true, and then a loader of that page has had CREATE TABLE IF
\* NOT EXISTS executed on the database the write goes to, where the table
\* exists from then on; the upsert of the write is issued on that database; and
\* the table of a database comes into being only in the CREATE step of a
\* loader, never in an action.
C14_WriteAfterCreate ==
    [][/\ \A m \in net' \ net :
             m.kind = "write" =>
                /\ index[m.v].dbAvailable = JBool(TRUE)
                /\ m.ctx \in index[m.v].made
       /\ \A r \in Reqs :
             (owner'[r] # 0 /\ req[r].kind = "idle" /\ req'[r].kind = "action") =>
                /\ req'[r].op.query = "UPSERT"
                /\ req'[r].op.h \in index'[owner'[r]].made
       /\ \A v \in Views : \A d \in index'[v].made : db'[d].exists
       /\ \A d \in Handles :
             (db'[d].exists /\ ~db[d].exists) =>
                \E r \in Reqs : /\ req[r].kind = "loader" /\ req[r].pc = "create"
                                /\ req[r].op.h = d]_vars

\* A page has had a write answered with success, and the post of another
\* client fails on a database that has no table and is left without one.
C14_Witness ==
    /\ audit.kind = "action" /\ resp.error = NoSuchTable
    /\ ~db[audit.ctx].exists
    /\ \E v \in Views : /\ Truthy(index[v].fdata.success)
                        /\ index[v].ctx \in index[v].made

\* The status log holds each seed entry exactly once and only known statuses.
LogOk(data) ==
    /\ \A id \in {"banner", "toast", "modal"} :
          Cardinality({i \in 1..Len(data) : data[i].id = id}) = 1
    /\ \A i \in 1..Len(data) : data[i].status \in {"Active", "Inactive", "Submitted"}

\* C15: through every gallery interaction the status log never loses an
\* entry: its length never decreases, the seed entries 'banner', 'toast' and
\* 'modal' are each present exactly once, and every entry's status is one of
\* Active, Inactive, Submitted.
C15_LogKeepsEntries ==
    /\ LogOk(componentStatusData)
    /\ [][/\ Len(componentStatusData') >= Len(componentStatusData)
          /\ LogOk(componentStatusData')]_vars

\* A name has been saved while banner and modal are active and the toast has
\* gone back to inactive: four entries, all three statuses.
C15_Witness ==
    /\ Len(componentStatusData) = 4
    /\ componentStatusData[4].status = "Submitted"
    /\ \E i \in 1..3 : componentStatusData[i].status = "Active"
    /\ \E i \in 1..3 : /\ componentStatusData[i].id = "toast"
                       /\ componentStatusData[i].status = "Inactive"
                       /\ componentStatusData[i].time > 0

\* The 'toast' row of the status log says Inactive.
ToastInactive ==
    \A i \in 1..Len(componentStatusData) :
        componentStatusData[i].id = "toast" => componentStatusData[i].status = "Inactive"

\* C16: whenever the toast checkbox is checked, the toast state eventually is
\* unchecked again with the 'toast' entry of the status log Inactive, whatever
\* else is done in the gallery meanwhile, given that a pending timeout fires.
C16_ToastResets == toastChecked ~> (~toastChecked /\ ~toastBox /\ ToastInactive)

\* The toast was shown and its timeout has fired while the banner was up: the
\* checkbox is unchecked again and no timeout is pending.
C16_Witness ==
    /\ shopifyToast = "Action completed successfully!"
    /\ timers = 0
    /\ ~toastChecked /\ ~toastBox /\ ToastInactive
    /\ showBanner
====
